---- MODULE Spec2Model ----
(***************************************************************************)
(* imgtools: the crop and watermark commands of main() (src/src/main.rs)   *)
(* over the parsed command values of src/src/lib.rs.                       *)
(*                                                                         *)
(* One run of the program is one behaviour: Init is the state at the       *)
(* `match command` of main.rs:72 (arguments parsed, input image decoded),  *)
(* and every action is one statement group of the selected match arm.      *)
(*                                                                         *)
(* The FromStr implementations of Crop, Position and Color (lib.rs) are    *)
(* pure functions of the argument string; ParseSpec applies them to        *)
(* argument strings drawn from a bounded set.  A string is a sequence of   *)
(* one-character strings.                                                  *)
(*                                                                         *)
(* u32 values are written by the signed reading of their 32 bits: a value  *)
(* v < 2^31 is written v, a value v >= 2^31 is written v - 2^32.  The      *)
(* encoding is one-to-one, and wrapping subtraction is plain subtraction   *)
(* on it for the operand sizes used here.                                  *)
(***************************************************************************)
EXTENDS Integers, Sequences, FiniteSets, TLC

\* ---------------------------------------------------------------- bounds
MaxDim == 3          \* canvas sides range over 1..MaxDim
MaxTarget == 4       \* crop sizes and watermark image sides range up to this
MaxCoord == 2        \* Custom(x, y, ..) coordinates range over 0..MaxCoord
MaxMargin == 2       \* --margin ranges over 0..MaxMargin
MaxSpacing == 3      \* flat-lay(n) ranges over 0..MaxSpacing
MaxText == 2         \* rendered text bounding box sides range over 0..MaxText
AngleSlack == 1      \* whole degrees tried below 0 and above 360
MaxNum == 2          \* numeric arguments of the grammar strings range over 0..MaxNum
WideText == 4096     \* a text side whose square is the first power of two f32 cannot count past
HugeText == 65536    \* a text side whose square does not fit 32 bits

\* ------------------------------------------------------ program constants
AngleMin == 0
AngleMax == 360
DefaultMargin == 20

VARIABLES
    pc,              \* position in main()
    overflowChecks,  \* build profile: TRUE = overflow checks on (dev), FALSE = off (release)
    command,         \* "Crop" or "Watermark"
    width, height,   \* img.width(), img.height()
    crop,            \* the Crop value of Command::Crop
    position,        \* the Position value of Command::Watermark
    rotate,          \* the f32 --rotate value, in degrees
    margin,          \* the u32 --margin value
    watermark,       \* dimensions of the watermark buffer, once made
    rotated,         \* dimensions of the rotated watermark, once made
    rect,            \* arguments of img.crop_imm, once called
    xy,              \* the resolved (x, y) of the position match, once evaluated
    placed,          \* the overlay(&mut img, &rotated, x, y) calls so far, in order
    tx, ty,          \* loop variables x, y of the flat-lay loops
    stages,          \* watermark pipeline stages completed, in order
    wrapped,         \* TRUE once a u32 subtraction has wrapped around
    stderr,          \* the message printed by eprintln!, "" when none
    outcome,         \* "running", "saved", "error" (message and return) or "panic"
    arg,             \* the command-line value handed to a from_str, with its type
    parsed,          \* what that from_str returned, once called
    text_size,       \* (text_w, text_h) of the Text arm, while the arm is running
    drawn            \* (center_x, center_y) handed to draw_text_mut, while the arm is running

vars == <<pc, overflowChecks, command, width, height, crop, position, rotate,
          margin, watermark, rotated, rect, xy, placed, tx, ty, stages,
          wrapped, stderr, outcome, arg, parsed, text_size, drawn>>

\* ------------------------------------------------------------ u32 helpers
\* a - b on u32 with wrap-around (release profile)
U32Sub(a, b) == a - b

\* unsigned a < b: the condition under which a - b overflows
U32Lt(a, b) ==
    IF (a >= 0) = (b >= 0) THEN a < b ELSE a >= 0

\* mutant of U32Div2: the quotient rounded up instead of truncated
U32Div2_RoundUp(e) ==
    IF e >= 0 THEN (e + 1) \div 2
    ELSE 2147483647 - ((((0 - e) + 1) \div 2) - 1)

\* unsigned e / 2
U32Div2(e) ==
    IF e >= 0 THEN e \div 2
    ELSE 2147483647 - ((((0 - e) + 1) \div 2) - 1)

\* ------------------------------------------------------------ value sets
AnchorKinds == {"Center", "TopLeft", "TopCenter", "TopRight", "MiddleLeft",
                "MiddleRight", "BottomLeft", "BottomCenter", "BottomRight"}

\* enum Crop
Crops ==
    {[kind |-> k, x |-> 0, y |-> 0, w |-> w, h |-> h] :
        k \in AnchorKinds, w \in 0..MaxTarget, h \in 0..MaxTarget}
    \cup
    {[kind |-> "Custom", x |-> x, y |-> y, w |-> w, h |-> h] :
        x \in 0..MaxCoord, y \in 0..MaxCoord, w \in 0..MaxCoord, h \in 0..MaxCoord}

\* enum Position
Positions ==
    {[kind |-> k, x |-> 0, y |-> 0, spacing |-> 0] : k \in AnchorKinds}
    \cup
    {[kind |-> "Custom", x |-> x, y |-> y, spacing |-> 0] :
        x \in 0..MaxCoord, y \in 0..MaxCoord}
    \cup
    {[kind |-> "FlatLay", x |-> 0, y |-> 0, spacing |-> s] : s \in 0..MaxSpacing}

\* f32 values of --rotate: whole degrees around both ends of the range, and NaN
Angles ==
    {[nan |-> FALSE, deg |-> d] :
        d \in ((AngleMin - AngleSlack)..AngleMin) \cup {180}
              \cup (AngleMax..(AngleMax + AngleSlack))}
    \cup {[nan |-> TRUE, deg |-> 0]}

NoCrop == [kind |-> "TopLeft", x |-> 0, y |-> 0, w |-> 0, h |-> 0]
NoPosition == [kind |-> "Center", x |-> 0, y |-> 0, spacing |-> 0]
NoAngle == [nan |-> FALSE, deg |-> 0]
NoDims == [w |-> 0, h |-> 0]
NoRect == <<>>
NoXY == <<>>

\* ------------------------------------------------------- crop resolution
\* mutant of ResolveRegion: TopRight takes x = width, the target width not
\* subtracted
ResolveRegion_TopRightAtEdge(c, cw, ch) ==
    LET w == c.w
        h == c.h
        ovx == U32Lt(cw, w)
        ovy == U32Lt(ch, h)
        R(x, y, ov) == [x |-> x, y |-> y, w |-> w, h |-> h, overflow |-> ov]
    IN CASE c.kind = "Center" ->
                R(U32Div2(U32Sub(cw, w)), U32Div2(U32Sub(ch, h)), ovx \/ ovy)
         [] c.kind = "TopLeft" -> R(0, 0, FALSE)
         [] c.kind = "TopCenter" -> R(U32Div2(U32Sub(cw, w)), 0, ovx)
         [] c.kind = "TopRight" -> R(cw, 0, FALSE)
         [] c.kind = "MiddleLeft" -> R(0, U32Div2(U32Sub(ch, h)), ovy)
         [] c.kind = "MiddleRight" ->
                R(U32Sub(cw, w), U32Div2(U32Sub(ch, h)), ovx \/ ovy)
         [] c.kind = "BottomLeft" -> R(0, U32Sub(ch, h), ovy)
         [] c.kind = "BottomCenter" ->
                R(U32Div2(U32Sub(cw, w)), U32Sub(ch, h), ovx \/ ovy)
         [] c.kind = "BottomRight" -> R(U32Sub(cw, w), U32Sub(ch, h), ovx \/ ovy)
         [] c.kind = "Custom" -> R(c.x, c.y, FALSE)

\* mutant of ResolveRegion: MiddleRight takes the centred x of the arm above it
ResolveRegion_MiddleRightCentred(c, cw, ch) ==
    LET w == c.w
        h == c.h
        ovx == U32Lt(cw, w)
        ovy == U32Lt(ch, h)
        R(x, y, ov) == [x |-> x, y |-> y, w |-> w, h |-> h, overflow |-> ov]
    IN CASE c.kind = "Center" ->
                R(U32Div2(U32Sub(cw, w)), U32Div2(U32Sub(ch, h)), ovx \/ ovy)
         [] c.kind = "TopLeft" -> R(0, 0, FALSE)
         [] c.kind = "TopCenter" -> R(U32Div2(U32Sub(cw, w)), 0, ovx)
         [] c.kind = "TopRight" -> R(U32Sub(cw, w), 0, ovx)
         [] c.kind = "MiddleLeft" -> R(0, U32Div2(U32Sub(ch, h)), ovy)
         [] c.kind = "MiddleRight" ->
                R(U32Div2(U32Sub(cw, w)), U32Div2(U32Sub(ch, h)), ovx \/ ovy)
         [] c.kind = "BottomLeft" -> R(0, U32Sub(ch, h), ovy)
         [] c.kind = "BottomCenter" ->
                R(U32Div2(U32Sub(cw, w)), U32Sub(ch, h), ovx \/ ovy)
         [] c.kind = "BottomRight" -> R(U32Sub(cw, w), U32Sub(ch, h), ovx \/ ovy)
         [] c.kind = "Custom" -> R(c.x, c.y, FALSE)

\* the `match crop` of Command::Crop: the (x, y, w, h) tuple, and whether a
\* subtraction in the selected arm overflowed
ResolveRegion(c, cw, ch) ==
    LET w == c.w
        h == c.h
        ovx == U32Lt(cw, w)
        ovy == U32Lt(ch, h)
        R(x, y, ov) == [x |-> x, y |-> y, w |-> w, h |-> h, overflow |-> ov]
    IN CASE c.kind = "Center" ->
                R(U32Div2(U32Sub(cw, w)), U32Div2(U32Sub(ch, h)), ovx \/ ovy)
         [] c.kind = "TopLeft" -> R(0, 0, FALSE)
         [] c.kind = "TopCenter" -> R(U32Div2(U32Sub(cw, w)), 0, ovx)
         [] c.kind = "TopRight" -> R(U32Sub(cw, w), 0, ovx)
         [] c.kind = "MiddleLeft" -> R(0, U32Div2(U32Sub(ch, h)), ovy)
         [] c.kind = "MiddleRight" ->
                R(U32Sub(cw, w), U32Div2(U32Sub(ch, h)), ovx \/ ovy)
         [] c.kind = "BottomLeft" -> R(0, U32Sub(ch, h), ovy)
         [] c.kind = "BottomCenter" ->
                R(U32Div2(U32Sub(cw, w)), U32Sub(ch, h), ovx \/ ovy)
         [] c.kind = "BottomRight" -> R(U32Sub(cw, w), U32Sub(ch, h), ovx \/ ovy)
         [] c.kind = "Custom" -> R(c.x, c.y, FALSE)

\* -------------------------------------------------- watermark resolution
\* mutant of RangeContains: the half-open range 0.0..360.0
RangeContains_Exclusive(r) ==
    /\ ~r.nan
    /\ AngleMin <= r.deg
    /\ r.deg < AngleMax

\* (0.0..=360.0).contains(&rotate); every comparison with NaN is false
RangeContains(r) ==
    /\ ~r.nan
    /\ AngleMin <= r.deg
    /\ r.deg <= AngleMax

\* u32::pow(2): the square in the signed reading of its 32 bits, and whether
\* the multiplication overflowed; for w below 65536 + 8192
U32Square(w) ==
    IF w < 46341 THEN [val |-> w * w, overflow |-> FALSE]
    ELSE IF w < 65536 THEN [val |-> (w - 65536) * (w + 65536), overflow |-> FALSE]
    ELSE [val |-> (w - 65536) * 131072 + (w - 65536) * (w - 65536),
          overflow |-> TRUE]

\* a + b on u32, in the signed reading, and whether the addition overflowed
U32Add(a, b) ==
    IF a >= 0 /\ b >= 0
    THEN [val |-> IF a > 2147483647 - b
                  THEN (a - 2147483647 - 1) + (b - 2147483647 - 1)
                  ELSE a + b,
          overflow |-> FALSE]
    ELSE IF a < 0 /\ b < 0
    THEN [val |-> IF a >= (-2147483647 - 1) - b
                  THEN a + b
                  ELSE (a + 2147483647 + 1) + (b + 2147483647 + 1),
          overflow |-> TRUE]
    ELSE [val |-> a + b, overflow |-> a + b >= 0]

\* the largest e with 2^e <= n, for n >= 1
RECURSIVE Log2(_)
Log2(n) == IF n < 2 THEN 0 ELSE 1 + Log2(n \div 2)

RECURSIVE Pow2(_)
Pow2(e) == IF e = 0 THEN 1 ELSE 2 * Pow2(e - 1)

\* `n as f32` for 0 <= n < 2^31 - 64: f32 has a 24-bit significand, the
\* nearest representable value is taken and a tie goes to the even
\* significand.  The result is an integer and is returned as one.
F32FromU32(n) ==
    IF n < 16777216 THEN n
    ELSE LET q == Pow2(Log2(n) - 23)
             lo == n - (n % q)
             rem == n % q
         IN IF 2 * rem < q THEN lo
            ELSE IF 2 * rem > q THEN lo + q
            ELSE IF (lo \div q) % 2 = 0 THEN lo
            ELSE lo + q

\* the largest k in lo..hi with k * k <= n, given lo * lo <= n
RECURSIVE IsqrtIn(_, _, _)
IsqrtIn(n, lo, hi) ==
    IF lo = hi THEN lo
    ELSE LET mid == (lo + hi + 1) \div 2
         IN IF mid * mid <= n THEN IsqrtIn(n, mid, hi) ELSE IsqrtIn(n, lo, mid - 1)

\* floor of the square root of n, for 0 <= n < 2^31
Isqrt(n) == IsqrtIn(n, 0, 46340)

\* x.sqrt().ceil() as u32 for an f32 x of integer value.  f32::sqrt is
\* correctly rounded: with k = floor(sqrt(x)), r = x - k*k and 2^m <= k <
\* 2^(m+1), the root rounds down to k exactly when r * 2^(23-m) <= k (half a
\* unit in the last place at k), and otherwise to a value above k whose
\* ceiling is k + 1
F32SqrtCeil(x) ==
    LET k == Isqrt(x)
        r == x - k * k
    IN IF k = 0 THEN (IF x = 0 THEN 0 ELSE 1)
       ELSE IF r <= k \div Pow2(23 - Log2(k)) THEN k
       ELSE k + 1

\* ((n) as f32).sqrt().ceil() as u32
CeilSqrt(n) == F32SqrtCeil(F32FromU32(n))

\* the sides text_size can return here: small ones, one at the f32 limit and
\* one at the u32 limit
TextSides == (0..MaxText) \cup {WideText, HugeText}
\* text_size and drawn hold <<>> outside the Text arm
NoText == <<>>

\* mutant of ResolvePlacement: TopRight leaves the margin out of x
ResolvePlacement_TopRightNoMargin(p, cw, ch, w, h, m) ==
    LET cx == U32Div2(U32Sub(cw, w))
        cy == U32Div2(U32Sub(ch, h))
        rx == U32Sub(U32Sub(cw, w), m)
        by == U32Sub(U32Sub(ch, h), m)
        ovcx == U32Lt(cw, w)
        ovcy == U32Lt(ch, h)
        ovrx == U32Lt(cw, w) \/ U32Lt(U32Sub(cw, w), m)
        ovby == U32Lt(ch, h) \/ U32Lt(U32Sub(ch, h), m)
        P(x, y, ov) == [x |-> x, y |-> y, overflow |-> ov]
    IN CASE p.kind = "Center" -> P(cx, cy, ovcx \/ ovcy)
         [] p.kind = "TopLeft" -> P(m, m, FALSE)
         [] p.kind = "TopCenter" -> P(cx, m, ovcx)
         [] p.kind = "TopRight" -> P(U32Sub(cw, w), m, ovcx)
         [] p.kind = "MiddleLeft" -> P(m, cy, ovcy)
         [] p.kind = "MiddleRight" -> P(rx, cy, ovrx \/ ovcy)
         [] p.kind = "BottomLeft" -> P(m, by, ovby)
         [] p.kind = "BottomCenter" -> P(cx, by, ovcx \/ ovby)
         [] p.kind = "BottomRight" -> P(rx, by, ovrx \/ ovby)
         [] p.kind = "Custom" -> P(p.x, p.y, FALSE)

\* mutant of ResolvePlacement: BottomLeft leaves the watermark height out of y
ResolvePlacement_BottomLeftNoHeight(p, cw, ch, w, h, m) ==
    LET cx == U32Div2(U32Sub(cw, w))
        cy == U32Div2(U32Sub(ch, h))
        rx == U32Sub(U32Sub(cw, w), m)
        by == U32Sub(U32Sub(ch, h), m)
        ovcx == U32Lt(cw, w)
        ovcy == U32Lt(ch, h)
        ovrx == U32Lt(cw, w) \/ U32Lt(U32Sub(cw, w), m)
        ovby == U32Lt(ch, h) \/ U32Lt(U32Sub(ch, h), m)
        P(x, y, ov) == [x |-> x, y |-> y, overflow |-> ov]
    IN CASE p.kind = "Center" -> P(cx, cy, ovcx \/ ovcy)
         [] p.kind = "TopLeft" -> P(m, m, FALSE)
         [] p.kind = "TopCenter" -> P(cx, m, ovcx)
         [] p.kind = "TopRight" -> P(rx, m, ovrx)
         [] p.kind = "MiddleLeft" -> P(m, cy, ovcy)
         [] p.kind = "MiddleRight" -> P(rx, cy, ovrx \/ ovcy)
         [] p.kind = "BottomLeft" -> P(m, U32Sub(ch, m), U32Lt(ch, m))
         [] p.kind = "BottomCenter" -> P(cx, by, ovcx \/ ovby)
         [] p.kind = "BottomRight" -> P(rx, by, ovrx \/ ovby)
         [] p.kind = "Custom" -> P(p.x, p.y, FALSE)

\* the `match position` of Command::Watermark for the non-tiling positions:
\* the (x, y) pair, and whether a subtraction in the selected arm overflowed.
\* w, h are the rotated watermark's dimensions, m is the margin
ResolvePlacement(p, cw, ch, w, h, m) ==
    LET cx == U32Div2(U32Sub(cw, w))
        cy == U32Div2(U32Sub(ch, h))
        rx == U32Sub(U32Sub(cw, w), m)
        by == U32Sub(U32Sub(ch, h), m)
        ovcx == U32Lt(cw, w)
        ovcy == U32Lt(ch, h)
        ovrx == U32Lt(cw, w) \/ U32Lt(U32Sub(cw, w), m)
        ovby == U32Lt(ch, h) \/ U32Lt(U32Sub(ch, h), m)
        P(x, y, ov) == [x |-> x, y |-> y, overflow |-> ov]
    IN CASE p.kind = "Center" -> P(cx, cy, ovcx \/ ovcy)
         [] p.kind = "TopLeft" -> P(m, m, FALSE)
         [] p.kind = "TopCenter" -> P(cx, m, ovcx)
         [] p.kind = "TopRight" -> P(rx, m, ovrx)
         [] p.kind = "MiddleLeft" -> P(m, cy, ovcy)
         [] p.kind = "MiddleRight" -> P(rx, cy, ovrx \/ ovcy)
         [] p.kind = "BottomLeft" -> P(m, by, ovby)
         [] p.kind = "BottomCenter" -> P(cx, by, ovcx \/ ovby)
         [] p.kind = "BottomRight" -> P(rx, by, ovrx \/ ovby)
         [] p.kind = "Custom" -> P(p.x, p.y, FALSE)

\* mutant of FlatLayNext: both ranges inclusive of their end (0..=width)
FlatLayNext_Inclusive(x, y, cw, ch, spacing) ==
    IF x + spacing <= cw THEN [done |-> FALSE, x |-> x + spacing, y |-> y]
    ELSE IF y + spacing <= ch THEN [done |-> FALSE, x |-> 0, y |-> y + spacing]
    ELSE [done |-> TRUE, x |-> x, y |-> y]

\* mutant of FlatLayNext: the stride is one more than the spacing
FlatLayNext_WideStride(x, y, cw, ch, spacing) ==
    IF x + spacing + 1 < cw THEN [done |-> FALSE, x |-> x + spacing + 1, y |-> y]
    ELSE IF y + spacing + 1 < ch THEN [done |-> FALSE, x |-> 0, y |-> y + spacing + 1]
    ELSE [done |-> TRUE, x |-> x, y |-> y]

\* the next (x, y) of the nested step_by loops after the iteration at (x, y),
\* or done when both ranges are exhausted
FlatLayNext(x, y, cw, ch, spacing) ==
    IF x + spacing < cw THEN [done |-> FALSE, x |-> x + spacing, y |-> y]
    ELSE IF y + spacing < ch THEN [done |-> FALSE, x |-> 0, y |-> y + spacing]
    ELSE [done |-> TRUE, x |-> x, y |-> y]

\* every overlay call of the two nested loops run to completion from (x, y),
\* in order (spacing >= 1)
RECURSIVE FlatLayCalls(_, _, _, _, _)
FlatLayCalls(x, y, cw, ch, spacing) ==
    LET n == FlatLayNext(x, y, cw, ch, spacing)
    IN IF n.done THEN << <<x, y>> >>
       ELSE << <<x, y>> >> \o FlatLayCalls(n.x, n.y, cw, ch, spacing)

\* ---------------------------------------------------------------- strings
UpperChars == <<"A", "B", "C", "D", "E", "F", "G", "H", "I", "J", "K", "L", "M",
                "N", "O", "P", "Q", "R", "S", "T", "U", "V", "W", "X", "Y", "Z">>
LowerChars == <<"a", "b", "c", "d", "e", "f", "g", "h", "i", "j", "k", "l", "m",
                "n", "o", "p", "q", "r", "s", "t", "u", "v", "w", "x", "y", "z">>
DigitChars == <<"0", "1", "2", "3", "4", "5", "6", "7", "8", "9">>

\* char::to_lowercase on the characters used here
LowerChar(c) ==
    IF \E i \in DOMAIN UpperChars : UpperChars[i] = c
    THEN LowerChars[CHOOSE i \in DOMAIN UpperChars : UpperChars[i] = c]
    ELSE c

\* str::to_lowercase
ToLowercase(s) == [i \in DOMAIN s |-> LowerChar(s[i])]

\* str::starts_with, str::ends_with
StartsWith(s, p) == Len(p) <= Len(s) /\ SubSeq(s, 1, Len(p)) = p
EndsWith(s, p) == Len(p) <= Len(s) /\ SubSeq(s, Len(s) - Len(p) + 1, Len(s)) = p

\* the position of the first c in s, 0 when there is none
FindChar(s, c) ==
    IF \E i \in DOMAIN s : s[i] = c
    THEN CHOOSE i \in DOMAIN s : s[i] = c /\ \A j \in 1..(i - 1) : s[j] # c
    ELSE 0

\* str::split_once(c): the parts before and after the first c
SplitOnce(s, c) ==
    LET i == FindChar(s, c)
    IN [found |-> i # 0,
        before |-> IF i = 0 THEN s ELSE SubSeq(s, 1, i - 1),
        after |-> IF i = 0 THEN <<>> ELSE SubSeq(s, i + 1, Len(s))]

\* str::split(c): the pieces between the occurrences of c, at least one piece
RECURSIVE Split(_, _)
Split(s, c) ==
    LET i == FindChar(s, c)
    IN IF i = 0 THEN <<s>>
       ELSE <<SubSeq(s, 1, i - 1)>> \o Split(SubSeq(s, i + 1, Len(s)), c)

\* str::trim_end_matches(c): every trailing c removed
RECURSIVE TrimEndMatches(_, _)
TrimEndMatches(s, c) ==
    IF s # <<>> /\ s[Len(s)] = c
    THEN TrimEndMatches(SubSeq(s, 1, Len(s) - 1), c)
    ELSE s

\* char::is_whitespace on the characters used here
IsWhitespace(c) == c = " "

\* str::trim
RECURSIVE TrimStart(_)
TrimStart(s) ==
    IF s # <<>> /\ IsWhitespace(Head(s)) THEN TrimStart(Tail(s)) ELSE s
RECURSIVE TrimEnd(_)
TrimEnd(s) ==
    IF s # <<>> /\ IsWhitespace(s[Len(s)])
    THEN TrimEnd(SubSeq(s, 1, Len(s) - 1))
    ELSE s
Trim(s) == TrimEnd(TrimStart(s))

\* the index s[a..b] is in bounds (it panics otherwise)
SliceOk(s, a, b) == a <= b /\ b <= Len(s)
\* &s[a..b], zero-based and half-open
Slice(s, a, b) == SubSeq(s, a + 1, b)

\* ---------------------------------------------------------- integer parse
IsDigit(c) == \E i \in DOMAIN DigitChars : DigitChars[i] = c
DigitVal(c) == (CHOOSE i \in DOMAIN DigitChars : DigitChars[i] = c) - 1

RECURSIVE StripZeros(_)
StripZeros(ds) ==
    IF ds # <<>> /\ Head(ds) = "0" THEN StripZeros(Tail(ds)) ELSE ds

\* the number written by at most nine digits
RECURSIVE DigitsValue(_)
DigitsValue(ds) ==
    IF ds = <<>> THEN 0
    ELSE 10 * DigitsValue(SubSeq(ds, 1, Len(ds) - 1)) + DigitVal(ds[Len(ds)])

\* the digits of an unsigned from_str: one leading '+' is dropped; empty
\* input, a lone sign, '-' and any other non-digit are errors
UnsignedDigits(tok) ==
    LET body == IF tok # <<>> /\ Head(tok) = "+" THEN Tail(tok) ELSE tok
    IN [ok |-> body # <<>> /\ \A i \in DOMAIN body : IsDigit(body[i]),
        digits |-> body]

\* str::parse::<u32>: the value, in the signed reading of its 32 bits
ParseU32(tok) ==
    LET d == UnsignedDigits(tok)
        sig == StripZeros(d.digits)
        hi == DigitsValue(SubSeq(sig, 1, Len(sig) - 5))
        lo == DigitsValue(SubSeq(sig, Len(sig) - 4, Len(sig)))
    IN IF ~d.ok THEN [ok |-> FALSE, val |-> 0]
       ELSE IF Len(sig) <= 9 THEN [ok |-> TRUE, val |-> DigitsValue(sig)]
       ELSE IF Len(sig) > 10 \/ hi > 42949 \/ (hi = 42949 /\ lo > 67295)
            THEN [ok |-> FALSE, val |-> 0]
       ELSE IF hi < 21474 \/ (hi = 21474 /\ lo < 83648)
            THEN [ok |-> TRUE, val |-> hi * 100000 + lo]
       ELSE [ok |-> TRUE, val |-> (hi - 42948) * 100000 + (lo - 167296)]

\* str::parse::<usize>, read at a pointer width of 32 bits
ParseUsize(tok) == ParseU32(tok)

\* str::parse::<u8> with the value reduced modulo 256 instead of refused
ParseU8_Wrapping(tok) ==
    LET d == UnsignedDigits(tok)
        sig == StripZeros(d.digits)
    IN IF d.ok /\ Len(sig) <= 3
       THEN [ok |-> TRUE, val |-> DigitsValue(sig) % 256]
       ELSE [ok |-> FALSE, val |-> 0]

\* str::parse::<u8>
ParseU8(tok) ==
    LET d == UnsignedDigits(tok)
        sig == StripZeros(d.digits)
    IN IF d.ok /\ Len(sig) <= 3 /\ DigitsValue(sig) <= 255
       THEN [ok |-> TRUE, val |-> DigitsValue(sig)]
       ELSE [ok |-> FALSE, val |-> 0]

\* ------------------------------------------------------ grammar literals
Str_center == <<"c", "e", "n", "t", "e", "r">>
Str_topleft == <<"t", "o", "p", "l", "e", "f", "t">>
Str_topcenter == <<"t", "o", "p", "c", "e", "n", "t", "e", "r">>
Str_topright == <<"t", "o", "p", "r", "i", "g", "h", "t">>
Str_middleleft == <<"m", "i", "d", "d", "l", "e", "l", "e", "f", "t">>
Str_middleright == <<"m", "i", "d", "d", "l", "e", "r", "i", "g", "h", "t">>
Str_bottomleft == <<"b", "o", "t", "t", "o", "m", "l", "e", "f", "t">>
Str_bottomcenter == <<"b", "o", "t", "t", "o", "m", "c", "e", "n", "t", "e", "r">>
Str_bottomright == <<"b", "o", "t", "t", "o", "m", "r", "i", "g", "h", "t">>
Str_custom == <<"c", "u", "s", "t", "o", "m">>
Str_top_left == <<"t", "o", "p", "-", "l", "e", "f", "t">>
Str_top_center == <<"t", "o", "p", "-", "c", "e", "n", "t", "e", "r">>
Str_top_right == <<"t", "o", "p", "-", "r", "i", "g", "h", "t">>
Str_middle_left == <<"m", "i", "d", "d", "l", "e", "-", "l", "e", "f", "t">>
Str_middle_right == <<"m", "i", "d", "d", "l", "e", "-", "r", "i", "g", "h", "t">>
Str_bottom_left == <<"b", "o", "t", "t", "o", "m", "-", "l", "e", "f", "t">>
Str_bottom_center == <<"b", "o", "t", "t", "o", "m", "-", "c", "e", "n", "t", "e", "r">>
Str_bottom_right == <<"b", "o", "t", "t", "o", "m", "-", "r", "i", "g", "h", "t">>
Str_flat_lay == <<"f", "l", "a", "t", "-", "l", "a", "y">>
Str_white == <<"w", "h", "i", "t", "e">>
Str_black == <<"b", "l", "a", "c", "k">>
Str_red == <<"r", "e", "d">>
Str_green == <<"g", "r", "e", "e", "n">>
Str_blue == <<"b", "l", "u", "e">>
Str_rgba == <<"r", "g", "b", "a">>
Str_custom_open == Str_custom \o <<"(">>
Str_flat_lay_open == Str_flat_lay \o <<"(">>
Str_rgba_open == Str_rgba \o <<"(">>

\* the two-argument identifiers of Crop::from_str and their variants
CropAnchorNames == <<Str_center, Str_topleft, Str_topcenter, Str_topright, Str_middleleft, Str_middleright, Str_bottomleft, Str_bottomcenter, Str_bottomright>>
\* the bare identifiers of Position::from_str and their variants
PositionAnchorNames == <<Str_center, Str_top_left, Str_top_center, Str_top_right, Str_middle_left, Str_middle_right, Str_bottom_left, Str_bottom_center, Str_bottom_right>>
AnchorKindSeq == <<"Center", "TopLeft", "TopCenter", "TopRight", "MiddleLeft", "MiddleRight", "BottomLeft", "BottomCenter", "BottomRight">>
\* the preset identifiers of Color::from_str and their variants
ColorPresetNames == <<Str_white, Str_black, Str_red, Str_green, Str_blue>>
ColorPresetKinds == <<"White", "Black", "Red", "Green", "Blue">>

\* the index of name in names, 0 when it is not one of them
NameIndex(names, name) ==
    IF \E i \in DOMAIN names : names[i] = name
    THEN CHOOSE i \in DOMAIN names : names[i] = name
    ELSE 0

\* enum Color
NoColor == [kind |-> "White", r |-> 0, g |-> 0, b |-> 0, a |-> 0]
ColorPreset(k) == [kind |-> k, r |-> 0, g |-> 0, b |-> 0, a |-> 0]
ColorRgba(r, g, b, a) == [kind |-> "Rgba", r |-> r, g |-> g, b |-> b, a |-> a]

CropAnchor(k, w, h) == [kind |-> k, x |-> 0, y |-> 0, w |-> w, h |-> h]
CropCustom(x, y, w, h) == [kind |-> "Custom", x |-> x, y |-> y, w |-> w, h |-> h]
PositionAnchor(k) == [kind |-> k, x |-> 0, y |-> 0, spacing |-> 0]
PositionCustom(x, y) == [kind |-> "Custom", x |-> x, y |-> y, spacing |-> 0]
PositionFlatLay(n) == [kind |-> "FlatLay", x |-> 0, y |-> 0, spacing |-> n]

\* Result<T, E>: Ok(val), Err(msg), or the call panicked
Ok(v) == [tag |-> "Ok", val |-> v, msg |-> ""]
Err(m, none) == [tag |-> "Err", val |-> none, msg |-> m]
Panicked(none) == [tag |-> "Panic", val |-> none, msg |-> ""]

NoArg == [type |-> "", s |-> <<>>]
NotParsed == [tag |-> "", val |-> <<>>, msg |-> ""]

\* ------------------------------------------------------------- from_str
\* impl FromStr for Crop
CropFromStr(input) ==
    LET s == ToLowercase(input)
        sp == SplitOnce(s, "(")
        name == sp.before
        nums == TrimEndMatches(sp.after, ")")
        toks == Split(nums, ",")
        res == [i \in DOMAIN toks |-> ParseU32(Trim(toks[i]))]
        n == [i \in DOMAIN toks |-> res[i].val]
        k == NameIndex(CropAnchorNames, Trim(name))
    IN IF ~sp.found THEN Err("Format error: Missing '('", NoCrop)
       ELSE IF ~EndsWith(sp.after, <<")">>)
            THEN Err("Format error: Need to end with ')'", NoCrop)
       ELSE IF \E i \in DOMAIN res : ~res[i].ok
            THEN Err("The parameter must be a non-negative integer", NoCrop)
       ELSE IF k # 0 /\ Len(n) = 2 THEN Ok(CropAnchor(AnchorKindSeq[k], n[1], n[2]))
       ELSE IF Trim(name) = Str_custom /\ Len(n) = 4
            THEN Ok(CropCustom(n[1], n[2], n[3], n[4]))
       ELSE Err("Format error: The number of parameters does not match", NoCrop)

\* Position::from_str without the ends_with test of the custom arm.  The bare identifiers are matched against the
\* lower-cased string; the starts_with / ends_with tests and the slices of
\* the fallback arm read the argument s itself
PositionFromStr_NoEndCheck(s) ==
    LET k == NameIndex(PositionAnchorNames, ToLowercase(s))
        coords == Split(Slice(s, 7, Len(s) - 1), ",")
        x == ParseU32(Trim(coords[1]))
        y == ParseU32(Trim(coords[2]))
        value == ParseUsize(Trim(Slice(s, 9, Len(s) - 1)))
    IN IF k # 0 THEN Ok(PositionAnchor(AnchorKindSeq[k]))
       ELSE IF StartsWith(s, Str_custom_open)
       THEN IF ~SliceOk(s, 7, Len(s) - 1) THEN Panicked(NoPosition)
            ELSE IF Len(coords) = 2
                 THEN IF x.ok /\ y.ok THEN Ok(PositionCustom(x.val, y.val))
                      ELSE Err("Invalid custom position format. Expected numbers for coordinates.",
                               NoPosition)
            ELSE Err("Invalid custom position format. Expected format: custom(x,y)",
                     NoPosition)
       ELSE IF StartsWith(s, Str_flat_lay_open) /\ EndsWith(s, <<")">>)
       THEN IF ~SliceOk(s, 9, Len(s) - 1) THEN Panicked(NoPosition)
            ELSE IF value.ok THEN Ok(PositionFlatLay(value.val))
            ELSE Err("Invalid flat-lay format. Expected a number.", NoPosition)
       ELSE Err("Unknown position", NoPosition)

\* impl FromStr for Position.  The bare identifiers are matched against the
\* lower-cased string; the starts_with / ends_with tests and the slices of
\* the fallback arm read the argument s itself
PositionFromStr(s) ==
    LET k == NameIndex(PositionAnchorNames, ToLowercase(s))
        coords == Split(Slice(s, 7, Len(s) - 1), ",")
        x == ParseU32(Trim(coords[1]))
        y == ParseU32(Trim(coords[2]))
        value == ParseUsize(Trim(Slice(s, 9, Len(s) - 1)))
    IN IF k # 0 THEN Ok(PositionAnchor(AnchorKindSeq[k]))
       ELSE IF StartsWith(s, Str_custom_open) /\ EndsWith(s, <<")">>)
       THEN IF ~SliceOk(s, 7, Len(s) - 1) THEN Panicked(NoPosition)
            ELSE IF Len(coords) = 2
                 THEN IF x.ok /\ y.ok THEN Ok(PositionCustom(x.val, y.val))
                      ELSE Err("Invalid custom position format. Expected numbers for coordinates.",
                               NoPosition)
            ELSE Err("Invalid custom position format. Expected format: custom(x,y)",
                     NoPosition)
       ELSE IF StartsWith(s, Str_flat_lay_open) /\ EndsWith(s, <<")">>)
       THEN IF ~SliceOk(s, 9, Len(s) - 1) THEN Panicked(NoPosition)
            ELSE IF value.ok THEN Ok(PositionFlatLay(value.val))
            ELSE Err("Invalid flat-lay format. Expected a number.", NoPosition)
       ELSE Err("Unknown position", NoPosition)

\* impl FromStr for Color
ColorFromStr(input) ==
    LET s == ToLowercase(input)
        k == NameIndex(ColorPresetNames, s)
        parts == [i \in DOMAIN Split(Slice(s, 5, Len(s) - 1), ",") |->
                     Trim(Split(Slice(s, 5, Len(s) - 1), ",")[i])]
        c == [i \in DOMAIN parts |-> ParseU8(parts[i])]
    IN IF k # 0 THEN Ok(ColorPreset(ColorPresetKinds[k]))
       ELSE IF StartsWith(s, Str_rgba_open) /\ EndsWith(s, <<")">>)
       THEN IF ~SliceOk(s, 5, Len(s) - 1) THEN Panicked(NoColor)
            ELSE IF Len(parts) # 4 THEN Err("Invalid RGBA format", NoColor)
            ELSE IF \E i \in 1..4 : ~c[i].ok THEN Err("Invalid color component", NoColor)
            ELSE Ok(ColorRgba(c[1].val, c[2].val, c[3].val, c[4].val))
       ELSE Err("Invalid color", NoColor)

\* ------------------------------------------------------ argument strings
\* the decimal digits of n
RECURSIVE Decimal(_)
Decimal(n) ==
    IF n < 10 THEN <<DigitChars[n + 1]>>
    ELSE Decimal(n \div 10) \o <<DigitChars[(n % 10) + 1]>>

\* the pieces joined by sep
RECURSIVE Join(_, _)
Join(pieces, sep) ==
    IF Len(pieces) = 0 THEN <<>>
    ELSE IF Len(pieces) = 1 THEN pieces[1]
    ELSE pieces[1] \o sep \o Join(Tail(pieces), sep)

UpperChar(c) ==
    IF \E i \in DOMAIN LowerChars : LowerChars[i] = c
    THEN UpperChars[CHOOSE i \in DOMAIN LowerChars : LowerChars[i] = c]
    ELSE c
ToUppercase(s) == [i \in DOMAIN s |-> UpperChar(s[i])]
Capitalised(s) == [i \in DOMAIN s |-> IF i = 1 THEN UpperChar(s[i]) ELSE s[i]]

\* well-formed numeric tokens: small numbers and the largest u8
NumTokens == {Decimal(n) : n \in (0..MaxNum) \cup {255}}
\* tokens that are not plain in-range numbers: empty, blank, a letter,
\* negative, explicitly signed, zero-padded, one past u8
OddTokens == {<<>>, <<" ">>, <<"a">>, <<"-", "1">>, <<"+", "1">>,
              <<"0", "0", "7">>, Decimal(256)}
One == Decimal(1)

\* an argument string is described by its identifier, its argument tokens
\* and whether it is written bare (no parentheses)
Called(name, toks) == [name |-> name, toks |-> toks, bare |-> FALSE]
Bare(name) == [name |-> name, toks |-> <<>>, bare |-> TRUE]
TokSeqs(n) == [1..n -> NumTokens]
Ones(n) == [i \in 1..n |-> One]
\* every way of replacing one token of toks by an odd token
OddAt(toks) ==
    {[toks EXCEPT ![i] = b] : i \in DOMAIN toks, b \in OddTokens}

\* the ways an argument is written: letter case, a space at each place the
\* grammar names, and the malformed spellings of the tests
Variants == {"plain", "upper", "capital",
             "sp_lead", "sp_name", "sp_open", "sp_close", "sp_after", "sp_comma",
             "no_close", "two_close", "no_paren", "semicolon", "trailing"}

Render(shape, v) ==
    LET sp(w) == IF v = w THEN <<" ">> ELSE <<>>
        open == IF shape.bare \/ v = "no_paren" THEN <<>> ELSE <<"(">>
        close == IF shape.bare \/ v \in {"no_paren", "no_close"} THEN <<>> ELSE <<")">>
        sep == IF v = "sp_comma" THEN <<" ", ",", " ">>
               ELSE IF v = "semicolon" THEN <<";">>
               ELSE <<",">>
        text == sp("sp_lead") \o shape.name \o sp("sp_name") \o open
                \o (IF shape.bare THEN <<>> ELSE sp("sp_open"))
                \o Join(shape.toks, sep)
                \o (IF shape.bare THEN <<>> ELSE sp("sp_close"))
                \o close \o sp("sp_after")
                \o (IF v = "two_close" THEN <<")">> ELSE <<>>)
                \o (IF v = "trailing" THEN <<"x">> ELSE <<>>)
    IN CASE v = "upper" -> ToUppercase(text)
         [] v = "capital" -> Capitalised(text)
         [] OTHER -> text

SeqRange(q) == {q[i] : i \in DOMAIN q}

\* --crop values
CropShapes ==
    {Called(nm, t) : nm \in SeqRange(CropAnchorNames), t \in TokSeqs(2)}
    \cup {Called(Str_custom, t) : t \in TokSeqs(4)}
    \cup {Called(nm, Ones(n)) :
            nm \in {Str_center, Str_bottomright, Str_custom, Str_top_left, Str_rgba},
            n \in 0..5}
    \cup {Called(Str_center, t) : t \in OddAt(Ones(2))}
    \cup {Called(Str_custom, t) : t \in OddAt(Ones(4))}
    \cup {Bare(nm) : nm \in {<<>>, Str_center, Str_custom}}

\* --position values
PositionShapes ==
    {Bare(nm) : nm \in SeqRange(PositionAnchorNames)
                       \cup {<<>>, Str_custom, Str_flat_lay, Str_topleft, Str_white}}
    \cup {Called(Str_custom, t) : t \in TokSeqs(2)}
    \cup {Called(Str_flat_lay, t) : t \in TokSeqs(1)}
    \cup {Called(nm, Ones(n)) :
            nm \in {Str_custom, Str_flat_lay, Str_center, Str_topleft}, n \in 0..3}
    \cup {Called(Str_custom, t) : t \in OddAt(Ones(2))}
    \cup {Called(Str_flat_lay, t) : t \in OddAt(Ones(1))}

\* --color values
ColorShapes ==
    {Bare(nm) : nm \in SeqRange(ColorPresetNames) \cup {<<>>, Str_rgba, Str_center}}
    \cup {Called(Str_rgba, t) : t \in TokSeqs(4)}
    \cup {Called(nm, Ones(n)) : nm \in {Str_rgba, Str_red, Str_custom}, n \in 0..5}
    \cup {Called(Str_rgba, t) : t \in OddAt(Ones(4))}

Args ==
    {[type |-> "Crop", s |-> Render(sh, v)] : sh \in CropShapes, v \in Variants}
    \cup {[type |-> "Position", s |-> Render(sh, v)] : sh \in PositionShapes, v \in Variants}
    \cup {[type |-> "Color", s |-> Render(sh, v)] : sh \in ColorShapes, v \in Variants}

\* ------------------------------------------------------------------ Init
Init ==
    /\ pc = "match_command"
    /\ overflowChecks \in BOOLEAN
    /\ width \in 1..MaxDim
    /\ height \in 1..MaxDim
    /\ \/ /\ command = "Crop"
          /\ crop \in Crops
          /\ position = NoPosition
          /\ rotate = NoAngle
          /\ margin = 0
       \/ /\ command = "Watermark"
          /\ crop = NoCrop
          /\ position \in Positions
          /\ rotate \in Angles
          /\ margin \in 0..MaxMargin
    /\ watermark = NoDims
    /\ rotated = NoDims
    /\ rect = NoRect
    /\ xy = NoXY
    /\ placed = <<>>
    /\ tx = 0
    /\ ty = 0
    /\ stages = <<>>
    /\ wrapped = FALSE
    /\ stderr = ""
    /\ outcome = "running"
    /\ text_size = NoText
    /\ drawn = NoText
    /\ arg = NoArg
    /\ parsed = NotParsed

\* --------------------------------------------------------------- actions
\* Command::Crop, the `match crop` (main.rs:195-234)
CropResolve ==
    /\ pc = "match_command"
    /\ command = "Crop"
    /\ LET r == ResolveRegion(crop, width, height)
       IN IF r.overflow /\ overflowChecks
          THEN /\ pc' = "done"
               /\ outcome' = "panic"
               /\ UNCHANGED <<rect, wrapped>>
          ELSE /\ pc' = "crop_imm"
               /\ rect' = <<r.x, r.y, r.w, r.h>>
               /\ wrapped' = r.overflow
               /\ UNCHANGED outcome
    /\ UNCHANGED <<arg, parsed, text_size, drawn, overflowChecks, command, width, height, crop, position,
                   rotate, margin, watermark, rotated, xy, placed, tx, ty,
                   stages, stderr>>

\* img = img.crop_imm(x, y, w, h) (main.rs:236)
CropImm ==
    /\ pc = "crop_imm"
    /\ pc' = "save"
    /\ UNCHANGED <<arg, parsed, text_size, drawn, overflowChecks, command, width, height, crop, position,
                   rotate, margin, watermark, rotated, rect, xy, placed, tx,
                   ty, stages, wrapped, stderr, outcome>>

\* the final img.save(output) (main.rs:405-414)
Save ==
    /\ pc = "save"
    /\ pc' = "done"
    /\ \/ /\ outcome' = "saved"
          /\ UNCHANGED stderr
       \/ /\ outcome' = "error"
          /\ stderr' = "Failed to save image"
    /\ UNCHANGED <<arg, parsed, text_size, drawn, overflowChecks, command, width, height, crop, position,
                   rotate, margin, watermark, rotated, rect, xy, placed, tx,
                   ty, stages, wrapped>>

\* Command::Watermark: validate rotation angle (main.rs:253-262)
ValidateRotation ==
    /\ pc = "match_command"
    /\ command = "Watermark"
    /\ IF ~RangeContains(rotate)
       THEN /\ pc' = "done"
            /\ outcome' = "error"
            /\ stderr' = "Rotation value is out of valid range"
       ELSE /\ pc' = "make_watermark"
            /\ UNCHANGED <<outcome, stderr>>
    /\ UNCHANGED <<arg, parsed, text_size, drawn, overflowChecks, command, width, height, crop, position,
                   rotate, margin, watermark, rotated, rect, xy, placed, tx,
                   ty, stages, wrapped>>

\* Watermark::Text: load and parse the font, render the text into the square
\* diagonal buffer (main.rs:266-332)
MakeTextWatermark ==
    /\ pc = "make_watermark"
    /\ \/ \E e \in {"Unable to open font file", "Unable to read font file",
                    "Unable to parse font file"} :
             /\ pc' = "done"
             /\ outcome' = "error"
             /\ stderr' = e
             /\ UNCHANGED <<watermark, stages, text_size, drawn>>
       \/ \E text_w \in TextSides, text_h \in TextSides :
             LET sw == U32Square(text_w)
                 sh == U32Square(text_h)
                 sum == U32Add(sw.val, sh.val)
                 diagonal == CeilSqrt(sum.val)
                 center_x == U32Sub(U32Div2(diagonal), U32Div2(text_w))
                 center_y == U32Sub(U32Div2(diagonal), U32Div2(text_h))
                 overflow == \/ sw.overflow \/ sh.overflow \/ sum.overflow
                             \/ U32Lt(U32Div2(diagonal), U32Div2(text_w))
                             \/ U32Lt(U32Div2(diagonal), U32Div2(text_h))
             IN /\ text_size' = <<text_w, text_h>>
                /\ IF overflow /\ overflowChecks
                   THEN /\ pc' = "done"
                        /\ outcome' = "panic"
                        /\ UNCHANGED <<watermark, stages, drawn, stderr>>
                   ELSE /\ watermark' = [w |-> diagonal, h |-> diagonal]
                        /\ drawn' = <<center_x, center_y>>
                        /\ stages' = Append(stages, "SourceResolved")
                        /\ pc' = "rotate"
                        /\ UNCHANGED <<outcome, stderr>>
    /\ UNCHANGED <<arg, parsed, overflowChecks, command, width, height, crop, position,
                   rotate, margin, rotated, rect, xy, placed, tx, ty, wrapped>>

\* Watermark::Image: open, sniff and decode the watermark image
\* (main.rs:334-352)
LoadImageWatermark ==
    /\ pc = "make_watermark"
    /\ \/ \E e \in {"Failed to open watermark image",
                    "Failed to read watermark image",
                    "Failed to decode watermark image"} :
             /\ pc' = "done"
             /\ outcome' = "error"
             /\ stderr' = e
             /\ UNCHANGED <<watermark, stages>>
       \/ \E w \in 1..MaxTarget, h \in 1..MaxTarget :
             /\ watermark' = [w |-> w, h |-> h]
             /\ stages' = Append(stages, "SourceResolved")
             /\ pc' = "rotate"
             /\ UNCHANGED <<outcome, stderr>>
    /\ UNCHANGED <<arg, parsed, text_size, drawn, overflowChecks, command, width, height, crop, position,
                   rotate, margin, rotated, rect, xy, placed, tx, ty, wrapped>>

\* rotate_about_center keeps the buffer's dimensions (main.rs:355-363);
\* the locals of the Text arm are gone by now
RotateWatermark ==
    /\ pc = "rotate"
    /\ rotated' = watermark
    /\ text_size' = NoText
    /\ drawn' = NoText
    /\ stages' = Append(stages, "Rotated")
    /\ pc' = "place"
    /\ UNCHANGED <<arg, parsed, overflowChecks, command, width, height, crop, position,
                   rotate, margin, watermark, rect, xy, placed, tx, ty,
                   wrapped, stderr, outcome>>

\* `if let Position::FlatLay(spacing)`: build (0..height).step_by(spacing);
\* step_by asserts step != 0 (main.rs:365-366)
FlatLayEnter ==
    /\ pc = "place"
    /\ position.kind = "FlatLay"
    /\ IF position.spacing = 0
       THEN /\ pc' = "done"
            /\ outcome' = "panic"
       ELSE /\ pc' = "flat_lay"
            /\ UNCHANGED outcome
    /\ tx' = 0
    /\ ty' = 0
    /\ UNCHANGED <<arg, parsed, text_size, drawn, overflowChecks, command, width, height, crop, position,
                   rotate, margin, watermark, rotated, rect, xy, placed,
                   stages, wrapped, stderr>>

\* one iteration of the inner loop body (main.rs:366-370)
FlatLayOverlay ==
    /\ pc = "flat_lay"
    /\ placed' = Append(placed, <<tx, ty>>)
    /\ LET n == FlatLayNext(tx, ty, width, height, position.spacing)
       IN IF n.done
          THEN /\ pc' = "save_flat_lay"
               /\ stages' = Append(stages, "Tiled")
               /\ UNCHANGED <<tx, ty>>
          ELSE /\ tx' = n.x
               /\ ty' = n.y
               /\ UNCHANGED <<pc, stages>>
    /\ UNCHANGED <<arg, parsed, text_size, drawn, overflowChecks, command, width, height, crop, position,
                   rotate, margin, watermark, rotated, rect, xy, wrapped,
                   stderr, outcome>>

\* the img.save(output) of the flat-lay branch (main.rs:372-383)
SaveFlatLay ==
    /\ pc = "save_flat_lay"
    /\ pc' = "done"
    /\ \/ /\ outcome' = "saved"
          /\ UNCHANGED stderr
       \/ /\ outcome' = "error"
          /\ stderr' = "Failed to save image"
    /\ UNCHANGED <<arg, parsed, text_size, drawn, overflowChecks, command, width, height, crop, position,
                   rotate, margin, watermark, rotated, rect, xy, placed, tx,
                   ty, stages, wrapped>>

\* the `match position` (main.rs:386-399)
PositionResolve ==
    /\ pc = "place"
    /\ position.kind # "FlatLay"
    /\ LET r == ResolvePlacement(position, width, height, rotated.w,
                                 rotated.h, margin)
       IN IF r.overflow /\ overflowChecks
          THEN /\ pc' = "done"
               /\ outcome' = "panic"
               /\ UNCHANGED <<xy, wrapped>>
          ELSE /\ pc' = "overlay"
               /\ xy' = <<r.x, r.y>>
               /\ wrapped' = r.overflow
               /\ UNCHANGED outcome
    /\ UNCHANGED <<arg, parsed, text_size, drawn, overflowChecks, command, width, height, crop, position,
                   rotate, margin, watermark, rotated, rect, placed, tx, ty,
                   stages, stderr>>

\* overlay(&mut img, &rotated, x as i64, y as i64) (main.rs:401)
Overlay ==
    /\ pc = "overlay"
    /\ placed' = Append(placed, xy)
    /\ stages' = Append(stages, "Placed")
    /\ pc' = "save"
    /\ UNCHANGED <<arg, parsed, text_size, drawn, overflowChecks, command, width, height, crop, position,
                   rotate, margin, watermark, rotated, rect, xy, tx, ty,
                   wrapped, stderr, outcome>>

Next ==
    \/ CropResolve
    \/ CropImm
    \/ Save
    \/ ValidateRotation
    \/ MakeTextWatermark
    \/ LoadImageWatermark
    \/ RotateWatermark
    \/ FlatLayEnter
    \/ FlatLayOverlay
    \/ SaveFlatLay
    \/ PositionResolve
    \/ Overlay

Spec == Init /\ [][Next]_vars

\* ------------------------------------------------------- the value parsers
\* the state when clap hands one argument value to its type's from_str
ParseInit ==
    /\ pc = "from_str"
    /\ arg \in Args
    /\ parsed = NotParsed
    /\ overflowChecks = FALSE
    /\ command = ""
    /\ width = 1
    /\ height = 1
    /\ crop = NoCrop
    /\ position = NoPosition
    /\ rotate = NoAngle
    /\ margin = 0
    /\ watermark = NoDims
    /\ rotated = NoDims
    /\ rect = NoRect
    /\ xy = NoXY
    /\ placed = <<>>
    /\ tx = 0
    /\ ty = 0
    /\ stages = <<>>
    /\ wrapped = FALSE
    /\ stderr = ""
    /\ outcome = "running"
    /\ text_size = NoText
    /\ drawn = NoText

\* <Crop as FromStr>::from_str(arg)
CropParse ==
    /\ pc = "from_str"
    /\ arg.type = "Crop"
    /\ parsed' = CropFromStr(arg.s)
    /\ pc' = "parsed"
    /\ UNCHANGED <<arg, text_size, drawn, overflowChecks, command, width, height, crop, position,
                   rotate, margin, watermark, rotated, rect, xy, placed, tx,
                   ty, stages, wrapped, stderr, outcome>>

\* <Position as FromStr>::from_str(arg)
PositionParse ==
    /\ pc = "from_str"
    /\ arg.type = "Position"
    /\ parsed' = PositionFromStr(arg.s)
    /\ pc' = "parsed"
    /\ UNCHANGED <<arg, text_size, drawn, overflowChecks, command, width, height, crop, position,
                   rotate, margin, watermark, rotated, rect, xy, placed, tx,
                   ty, stages, wrapped, stderr, outcome>>

\* <Color as FromStr>::from_str(arg)
ColorParse ==
    /\ pc = "from_str"
    /\ arg.type = "Color"
    /\ parsed' = ColorFromStr(arg.s)
    /\ pc' = "parsed"
    /\ UNCHANGED <<arg, text_size, drawn, overflowChecks, command, width, height, crop, position,
                   rotate, margin, watermark, rotated, rect, xy, placed, tx,
                   ty, stages, wrapped, stderr, outcome>>

ParseNext ==
    \/ CropParse
    \/ PositionParse
    \/ ColorParse

ParseSpec == ParseInit /\ [][ParseNext]_vars

\* ============================================================ properties
LeftAnchors == {"TopLeft", "MiddleLeft", "BottomLeft"}
HCenterAnchors == {"Center", "TopCenter", "BottomCenter"}
RightAnchors == {"TopRight", "MiddleRight", "BottomRight"}
TopAnchors == {"TopLeft", "TopCenter", "TopRight"}
VMiddleAnchors == {"Center", "MiddleLeft", "MiddleRight"}
BottomAnchors == {"BottomLeft", "BottomCenter", "BottomRight"}

\* the documented coordinate of an anchor along one axis: near edge, centred,
\* or far edge, for canvas side c, target side t and margin m
AnchorCoord(near, middle, c, t, m) ==
    IF near THEN m
    ELSE IF middle THEN (c - t) \div 2
    ELSE c - t - m

ExpectedX(k, c, t, m) == AnchorCoord(k \in LeftAnchors, k \in HCenterAnchors, c, t, m)
ExpectedY(k, c, t, m) == AnchorCoord(k \in TopAnchors, k \in VMiddleAnchors, c, t, m)

\* the anchor mirrored through the canvas centre
Opposite(k) ==
    CASE k = "TopLeft" -> "BottomRight"
      [] k = "BottomRight" -> "TopLeft"
      [] k = "TopRight" -> "BottomLeft"
      [] k = "BottomLeft" -> "TopRight"
      [] k = "TopCenter" -> "BottomCenter"
      [] k = "BottomCenter" -> "TopCenter"
      [] k = "MiddleLeft" -> "MiddleRight"
      [] k = "MiddleRight" -> "MiddleLeft"
      [] k = "Center" -> "Center"

\* the crop match has been evaluated and its tuple handed on
CropResolved == command = "Crop" /\ rect # NoRect
\* the crop size fits the canvas
CropFits == crop.w <= width /\ crop.h <= height

\* the position match has been evaluated and its pair handed on
PlacementResolved == command = "Watermark" /\ xy # NoXY
\* no subtraction of anchor k's formula underflows for the rotated watermark
NoUnderflow(k) ==
    /\ k \in HCenterAnchors => rotated.w <= width
    /\ k \in RightAnchors => rotated.w + margin <= width
    /\ k \in VMiddleAnchors => rotated.h <= height
    /\ k \in BottomAnchors => rotated.h + margin <= height

\* the flat-lay loops have run to completion
TilingDone ==
    /\ command = "Watermark"
    /\ position.kind = "FlatLay"
    /\ Len(stages) = 3
    /\ stages[3] = "Tiled"

\* the grid points of stride s inside a cw x ch canvas
Grid(cw, ch, s) ==
    {<<k * s, j * s>> : k \in {i \in 0..cw : i * s < cw},
                        j \in {i \in 0..ch : i * s < ch}}

\* C1: a crop spec whose size fits the canvas resolves to (x, y, w, h) with
\* x = 0 / (W-w)/2 / W-w for the left / centre / right anchors and
\* y = 0 / (H-h)/2 / H-h for the top / middle / bottom anchors, no margin;
\* Custom passes through unchanged; Center(100,200) on 400x400 is
\* (150,100,100,200).
C1_CropResolution ==
    /\ (CropResolved /\ CropFits) =>
          rect = IF crop.kind = "Custom"
                 THEN <<crop.x, crop.y, crop.w, crop.h>>
                 ELSE <<ExpectedX(crop.kind, width, crop.w, 0),
                        ExpectedY(crop.kind, height, crop.h, 0),
                        crop.w, crop.h>>
    /\ ResolveRegion([kind |-> "Center", x |-> 0, y |-> 0, w |-> 100, h |-> 200],
                     400, 400)
         = [x |-> 150, y |-> 100, w |-> 100, h |-> 200, overflow |-> FALSE]

C1_Witness ==
    /\ CropResolved
    /\ crop.kind = "Center"
    /\ width = 3 /\ crop.w = 2
    /\ height = 3 /\ crop.h = 1
    /\ rect = <<0, 1, 2, 1>>

\* C2: a watermark position whose formula does not underflow resolves to
\* x = m / (W-w)/2 / W-w-m for the left / centre / right anchors and
\* y = m / (H-h)/2 / H-h-m for the top / middle / bottom anchors;
\* Custom(x,y) gives (x,y) without margin; TopRight with a 50x50 overlay on
\* 400x400 and margin 20 is (330,20).
C2_PlacementResolution ==
    /\ (PlacementResolved /\ NoUnderflow(position.kind)) =>
          xy = IF position.kind = "Custom"
               THEN <<position.x, position.y>>
               ELSE <<ExpectedX(position.kind, width, rotated.w, margin),
                      ExpectedY(position.kind, height, rotated.h, margin)>>
    /\ ResolvePlacement([kind |-> "TopRight", x |-> 0, y |-> 0, spacing |-> 0],
                        400, 400, 50, 50, DefaultMargin)
         = [x |-> 330, y |-> 20, overflow |-> FALSE]

C2_Witness ==
    /\ PlacementResolved
    /\ position.kind = "TopRight"
    /\ width = 3 /\ rotated.w = 1 /\ margin = 1
    /\ xy = <<1, 1>>

\* the target of an anchored crop, or of an anchored watermark with its
\* margin, exceeds the canvas
ExceedsCanvas ==
    \/ /\ command = "Crop"
       /\ crop.kind \in AnchorKinds
       /\ ~CropFits
       /\ pc # "match_command"
    \/ /\ command = "Watermark"
       /\ position.kind \in AnchorKinds
       /\ Len(stages) >= 2
       /\ pc # "place"
       /\ ~NoUnderflow(position.kind)

\* C3: when the crop size exceeds the canvas, or the watermark plus margin
\* exceeds it for an anchor, resolution ends in a reported geometry error:
\* no subtraction wraps, nothing panics, and no crop or overlay is performed.
C3_GeometryErrorRaised ==
    ExceedsCanvas =>
        /\ ~wrapped
        /\ outcome # "panic"
        /\ rect = NoRect
        /\ placed = <<>>
        /\ pc = "done" => outcome = "error"

\* C4: flat-lay(0) is rejected as a reported error before the tiling loop:
\* the loop is never built with step 0, nothing panics, nothing is saved.
C4_FlatLayZeroRejected ==
    (command = "Watermark" /\ position.kind = "FlatLay" /\ position.spacing = 0) =>
        /\ outcome # "panic"
        /\ pc # "flat_lay"
        /\ pc = "done" => outcome = "error"

\* C5: flat-lay tiling with spacing s >= 1 calls overlay exactly once at each
\* grid point (k*s, j*s) with k*s < W and j*s < H, and nowhere else, whatever
\* the margin and the overlay size; s = 40 on 120x120 gives 9 placements at
\* x, y in {0, 40, 80}.
C5_FlatLayGrid ==
    /\ (command = "Watermark" /\ position.kind = "FlatLay") =>
          /\ \A i \in DOMAIN placed : placed[i] \in Grid(width, height, position.spacing)
          /\ \A i, j \in DOMAIN placed : placed[i] = placed[j] => i = j
    /\ TilingDone =>
          \A g \in Grid(width, height, position.spacing) :
              \E i \in DOMAIN placed : placed[i] = g
    /\ LET calls == FlatLayCalls(0, 0, 120, 120, 40)
       IN /\ Len(calls) = 9
          /\ {calls[i] : i \in DOMAIN calls} = {0, 40, 80} \X {0, 40, 80}

C5_Witness ==
    /\ TilingDone
    /\ position.spacing = 2
    /\ width = 3 /\ height = 3
    /\ Len(placed) = 4

\* C6: when 1 <= s <= min(overlay_w, overlay_h), after tiling every pixel of
\* the canvas lies inside the footprint of at least one placed copy.
C6_FlatLayCoverage ==
    (/\ TilingDone
     /\ 1 <= position.spacing
     /\ position.spacing <= rotated.w
     /\ position.spacing <= rotated.h) =>
        \A px \in 0..(width - 1), py \in 0..(height - 1) :
            \E i \in DOMAIN placed :
                /\ placed[i][1] <= px /\ px < placed[i][1] + rotated.w
                /\ placed[i][2] <= py /\ py < placed[i][2] + rotated.h

C6_Witness ==
    /\ TilingDone
    /\ position.spacing = 2
    /\ rotated.w = 2 /\ rotated.h = 3
    /\ width = 3 /\ height = 3
    /\ pc = "done" /\ outcome = "saved"

\* C7: for the nine crop anchors and a size that fits the canvas, the
\* resolved rectangle has x + w <= W and y + h <= H.
C7_RegionContained ==
    (CropResolved /\ crop.kind \in AnchorKinds /\ CropFits) =>
        /\ rect[1] + rect[3] <= width
        /\ rect[2] + rect[4] <= height

C7_Witness ==
    /\ CropResolved
    /\ crop.kind = "TopRight"
    /\ width = 3 /\ crop.w = 2 /\ crop.h = 1
    /\ rect[1] + rect[3] = width

MarginFits(k) ==
    /\ k \in LeftAnchors => margin + rotated.w <= width
    /\ k \in TopAnchors => margin + rotated.h <= height

Mirrored(xa, ya, xb, yb, w, h) ==
    /\ xa + xb + w \in {width, width - 1}
    /\ ya + yb + h \in {height, height - 1}

\* C9: an anchor and its opposite, resolved with the same size (and margin)
\* without underflow, are mirror images about the canvas centre within
\* integer rounding, for crop regions and for watermark placements.
C9_AnchorSymmetry ==
    /\ (CropResolved /\ crop.kind \in AnchorKinds /\ CropFits) =>
          LET b == ResolveRegion([crop EXCEPT !.kind = Opposite(crop.kind)],
                                 width, height)
          IN Mirrored(rect[1], rect[2], b.x, b.y, crop.w, crop.h)
    /\ (/\ PlacementResolved
        /\ position.kind \in AnchorKinds
        /\ NoUnderflow(position.kind)
        /\ NoUnderflow(Opposite(position.kind))) =>
          LET b == ResolvePlacement([position EXCEPT !.kind = Opposite(position.kind)],
                                    width, height, rotated.w, rotated.h, margin)
          IN Mirrored(xy[1], xy[2], b.x, b.y, rotated.w, rotated.h)

C9_Witness ==
    /\ CropResolved
    /\ crop.kind = "MiddleRight"
    /\ width = 3 /\ height = 3
    /\ crop.w = 1 /\ crop.h = 2
    /\ rect = <<2, 0, 1, 2>>

RotationMessage == "Rotation value is out of valid range"
\* the angle lies in the inclusive range [0, 360]
AngleInRange == ~rotate.nan /\ 0 <= rotate.deg /\ rotate.deg <= 360

\* C10: an angle outside [0, 360] ends the watermark command in the
\* rotation error before any source is loaded, rotated or composited, and
\* nothing is saved; angles inside the range, 0 and 360 included, pass
\* the validation: the run goes on to load or render the watermark source.
C10_RotationValidated ==
    command = "Watermark" =>
        /\ ~AngleInRange =>
              /\ pc \in {"match_command", "done"}
              /\ stages = <<>>
              /\ watermark = NoDims
              /\ rotated = NoDims
              /\ placed = <<>>
              /\ outcome # "saved"
              /\ pc = "done" => (outcome = "error" /\ stderr = RotationMessage)
        /\ AngleInRange =>
              /\ stderr # RotationMessage
              /\ pc = "done" =>
                    Len(stages) >= 1 \/ outcome = "error" \/ text_size # NoText

C10_Witness ==
    /\ command = "Watermark"
    /\ ~rotate.nan
    /\ rotate.deg = 361
    /\ pc = "done"
    /\ outcome = "error"
    /\ stderr = RotationMessage

\* a stage of the watermark command has failed: the angle is out of range,
\* the font or the watermark image could not be loaded, the spacing is zero,
\* or the rotated watermark with its margin does not fit the canvas
StageFailed ==
    \/ ~AngleInRange
    \/ stderr \in {"Unable to open font file", "Unable to read font file",
                   "Unable to parse font file", "Failed to open watermark image",
                   "Failed to read watermark image",
                   "Failed to decode watermark image"}
    \/ position.kind = "FlatLay" /\ position.spacing = 0
    \/ /\ position.kind \in AnchorKinds
       /\ Len(stages) >= 2
       /\ ~NoUnderflow(position.kind)

\* C11: a watermark run completes the stages SourceResolved, Rotated and
\* then Placed or Tiled in that order; the output is saved only after the
\* third stage; and when a stage fails (angle, font or overlay image,
\* geometry, spacing) no output is written.
C11_PipelineOrdered ==
    command = "Watermark" =>
        /\ Len(stages) <= 3
        /\ Len(stages) >= 1 => stages[1] = "SourceResolved"
        /\ Len(stages) >= 2 => stages[2] = "Rotated"
        /\ Len(stages) >= 3 => stages[3] \in {"Placed", "Tiled"}
        /\ outcome = "saved" => Len(stages) = 3
        /\ StageFailed => outcome # "saved"

\* ------------------------------------------------- properties of from_str
\* the from_str of the argument's type
ParseAs(type, s) ==
    CASE type = "Crop" -> CropFromStr(s)
      [] type = "Position" -> PositionFromStr(s)
      [] type = "Color" -> ColorFromStr(s)

\* from_str has returned
Parsed == pc = "parsed"

\* C12: for each of the three parsers and every string that is a valid
\* grammar string up to letter case, parse(s) succeeds and equals
\* parse(lowercase(s)).
C12_CaseInsensitive ==
    (Parsed /\ ParseAs(arg.type, ToLowercase(arg.s)).tag = "Ok") =>
        parsed = ParseAs(arg.type, ToLowercase(arg.s))

\* s with every space removed
RECURSIVE NoSpaces(_)
NoSpaces(s) ==
    IF s = <<>> THEN <<>>
    ELSE IF Head(s) = " " THEN NoSpaces(Tail(s))
    ELSE <<Head(s)>> \o NoSpaces(Tail(s))

\* C13: for each of the three parsers, spaces inserted before or after the
\* identifier, before or after either parenthesis, or around the commas of
\* a valid grammar string leave the successful parse result unchanged.
C13_WhitespaceTolerant ==
    (Parsed /\ ParseAs(arg.type, NoSpaces(arg.s)).tag = "Ok") =>
        parsed = ParseAs(arg.type, NoSpaces(arg.s))

Str_unknown == <<"u", "n", "k", "n", "o", "w", "n">>
Str_abc == <<"a", "b", "c">>
CropIdentifiers == SeqRange(CropAnchorNames) \cup {Str_custom}

\* the text after the first '(' of s
AfterOpen(s) == SplitOnce(s, "(").after
\* the argument tokens of s: the text between the first '(' and the final
\* ')', cut at the commas, each token without its surrounding spaces
ArgTokens(s) ==
    LET inner == SubSeq(AfterOpen(s), 1, Len(AfterOpen(s)) - 1)
    IN [i \in DOMAIN Split(inner, ",") |-> Trim(Split(inner, ",")[i])]
\* t is an unsigned-integer token
IsUnsignedToken(t) == UnsignedDigits(t).ok
TokenValue(t) == DigitsValue(StripZeros(UnsignedDigits(t).digits))

\* the kind of failure of a parenthesised crop string, "" when it has none
\* of the four: the first of unterminated, non-numeric, unknown identifier,
\* wrong argument count that applies
CropFailureKind(input) ==
    LET s == ToLowercase(input)
        name == Trim(SplitOnce(s, "(").before)
        toks == ArgTokens(s)
    IN IF FindChar(s, "(") = 0 THEN ""
       ELSE IF ~EndsWith(s, <<")">>) THEN "unterminated"
       ELSE IF \E i \in DOMAIN toks : ~IsUnsignedToken(toks[i]) THEN "non-numeric"
       ELSE IF name \notin CropIdentifiers THEN "unknown identifier"
       ELSE IF Len(toks) # (IF name = Str_custom THEN 4 ELSE 2) THEN "wrong arity"
       ELSE ""

\* one crop string of each failure kind
CropFailureExample(kind) ==
    CASE kind = "unterminated" ->
            Render(Called(Str_center, <<Decimal(100), Decimal(200)>>), "no_close")
      [] kind = "non-numeric" ->
            Render(Called(Str_center, <<Str_abc, Decimal(200)>>), "plain")
      [] kind = "wrong arity" ->
            Render(Called(Str_center, <<Decimal(100)>>), "plain")
      [] kind = "unknown identifier" ->
            Render(Called(Str_unknown, <<Decimal(100), Decimal(200)>>), "plain")
CropFailureKinds == {"unterminated", "non-numeric", "wrong arity", "unknown identifier"}

\* C14: in the crop parser a string with one of the four failure kinds
\* (unterminated, non-numeric token, wrong argument count, unknown
\* identifier) fails, and with an error different from the error of each
\* other kind; "center(100)" differs from "center(100,200" and from
\* "unknown(100,200)".
C14_DistinctErrors ==
    (Parsed /\ arg.type = "Crop" /\ CropFailureKind(arg.s) # "") =>
        /\ parsed.tag = "Err"
        /\ \A k \in CropFailureKinds \ {CropFailureKind(arg.s)} :
              parsed.msg # CropFromStr(CropFailureExample(k)).msg

\* the crop grammar: one of the ten identifiers, '(', unsigned-integer
\* tokens separated by commas, two for an anchor and four for custom, and
\* one ')' as the last character
InRegionGrammar(s) ==
    LET name == Trim(SplitOnce(s, "(").before)
        toks == ArgTokens(s)
    IN /\ FindChar(s, "(") # 0
       /\ EndsWith(s, <<")">>)
       /\ FindChar(AfterOpen(s), ")") = Len(AfterOpen(s))
       /\ name \in CropIdentifiers
       /\ \A i \in DOMAIN toks : IsUnsignedToken(toks[i])
       /\ Len(toks) = (IF name = Str_custom THEN 4 ELSE 2)

\* the Crop value the grammar string s denotes
RegionValue(s) ==
    LET name == Trim(SplitOnce(s, "(").before)
        n == [i \in DOMAIN ArgTokens(s) |-> TokenValue(ArgTokens(s)[i])]
    IN IF name = Str_custom THEN CropCustom(n[1], n[2], n[3], n[4])
       ELSE CropAnchor(AnchorKindSeq[NameIndex(CropAnchorNames, name)], n[1], n[2])

\* C15: Crop::from_str(s) is Ok exactly when lowercase(s) is in the crop
\* grammar, with the matching variant and the integers in order; every
\* other string, a second ')' after the argument list included, is Err.
C15_RegionGrammarExact ==
    (Parsed /\ arg.type = "Crop") =>
        IF InRegionGrammar(ToLowercase(arg.s))
        THEN parsed = Ok(RegionValue(ToLowercase(arg.s)))
        ELSE parsed.tag = "Err"

\* the position grammar: a bare anchor, custom(x,y) or flat-lay(n)
InPlacementGrammar(s) ==
    \/ s \in SeqRange(PositionAnchorNames)
    \/ /\ StartsWith(s, Str_custom_open)
       /\ EndsWith(s, <<")">>)
       /\ Len(ArgTokens(s)) = 2
       /\ \A i \in 1..2 : IsUnsignedToken(ArgTokens(s)[i])
    \/ /\ StartsWith(s, Str_flat_lay_open)
       /\ EndsWith(s, <<")">>)
       /\ Len(ArgTokens(s)) = 1
       /\ IsUnsignedToken(ArgTokens(s)[1])

\* the Position value the grammar string s denotes
PlacementValue(s) ==
    IF s \in SeqRange(PositionAnchorNames)
    THEN PositionAnchor(AnchorKindSeq[NameIndex(PositionAnchorNames, s)])
    ELSE IF StartsWith(s, Str_custom_open)
    THEN PositionCustom(TokenValue(ArgTokens(s)[1]), TokenValue(ArgTokens(s)[2]))
    ELSE PositionFlatLay(TokenValue(ArgTokens(s)[1]))

\* C16: Position::from_str(s) is Ok exactly when s is, up to letter case,
\* a bare anchor, custom(x,y) with two unsigned integers or flat-lay(n)
\* with one, giving that value; every other string is Err.
C16_PlacementGrammarExact ==
    (Parsed /\ arg.type = "Position") =>
        IF InPlacementGrammar(ToLowercase(arg.s))
        THEN parsed = Ok(PlacementValue(ToLowercase(arg.s)))
        ELSE parsed.tag = "Err"

\* a color component: an unsigned-integer token of value 0..255
IsComponent(t) ==
    /\ IsUnsignedToken(t)
    /\ Len(StripZeros(UnsignedDigits(t).digits)) <= 3
    /\ TokenValue(t) \in 0..255

\* the color grammar: a preset name, or rgba( four components )
InColorGrammar(s) ==
    \/ s \in SeqRange(ColorPresetNames)
    \/ /\ StartsWith(s, Str_rgba_open)
       /\ EndsWith(s, <<")">>)
       /\ Len(ArgTokens(s)) = 4
       /\ \A i \in 1..4 : IsComponent(ArgTokens(s)[i])

\* the Color value the grammar string s denotes
ColorValue(s) ==
    IF s \in SeqRange(ColorPresetNames)
    THEN ColorPreset(ColorPresetKinds[NameIndex(ColorPresetNames, s)])
    ELSE ColorRgba(TokenValue(ArgTokens(s)[1]), TokenValue(ArgTokens(s)[2]),
                   TokenValue(ArgTokens(s)[3]), TokenValue(ArgTokens(s)[4]))

Rgba(toks) == Render(Called(Str_rgba, toks), "plain")

\* C17: Color::from_str returns the preset for the five preset names and
\* Rgba(r,g,b,a) for rgba(r,g,b,a) exactly when there are four components
\* each an integer in 0..255, with those values unchanged; every other
\* string is Err.  rgba(255,0,128,64) gives Rgba(255,0,128,64);
\* rgba(256,0,0,0) and rgba(1,2,3) are Err.
C17_ColorGrammarExact ==
    /\ (Parsed /\ arg.type = "Color") =>
          IF InColorGrammar(ToLowercase(arg.s))
          THEN parsed = Ok(ColorValue(ToLowercase(arg.s)))
          ELSE parsed.tag = "Err"
    /\ ColorFromStr(Rgba(<<Decimal(255), Decimal(0), Decimal(128), Decimal(64)>>))
          = Ok(ColorRgba(255, 0, 128, 64))
    /\ ColorFromStr(Rgba(<<Decimal(256), Decimal(0), Decimal(0), Decimal(0)>>)).tag = "Err"
    /\ ColorFromStr(Rgba(<<Decimal(1), Decimal(2), Decimal(3)>>)).tag = "Err"

\* an rgba string with the largest component has been parsed to its value
C17_Witness ==
    /\ Parsed
    /\ arg.type = "Color"
    /\ parsed.tag = "Ok"
    /\ parsed.val.kind = "Rgba"
    /\ parsed.val.r = 255
    /\ parsed.val.a = 0

\* the slice s[a..len-1] is taken by the parser of this type on arg
SliceTaken(type, prefix) ==
    LET s == IF type = "Color" THEN ToLowercase(arg.s) ELSE arg.s
    IN /\ Parsed
       /\ arg.type = type
       /\ StartsWith(s, prefix)
       /\ EndsWith(s, <<")">>)

\* C19: each of the three parsers returns Ok or Err on every argument, the
\* empty string, a bare prefix and a prefix followed by ')' included, and
\* never panics: where the slices s[7..len-1], s[9..len-1] and s[5..len-1]
\* are taken, start <= end <= len; the result is a function of the
\* argument.
C19_ParserTotal ==
    /\ Parsed =>
          /\ parsed.tag \in {"Ok", "Err"}
          /\ parsed = ParseAs(arg.type, arg.s)
    /\ SliceTaken("Position", Str_custom_open) => SliceOk(arg.s, 7, Len(arg.s) - 1)
    /\ SliceTaken("Position", Str_flat_lay_open) => SliceOk(arg.s, 9, Len(arg.s) - 1)
    /\ SliceTaken("Color", Str_rgba_open) => SliceOk(arg.s, 5, Len(arg.s) - 1)

\* "custom()" has been parsed: the slice s[7..7] is empty and the result Err
C19_Witness ==
    /\ SliceTaken("Position", Str_custom_open)
    /\ arg.s = Str_custom_open \o <<")">>
    /\ parsed.tag = "Err"

\* the Text arm has made its buffer and drawn the text
TextDrawn == pc = "rotate" /\ text_size # NoText

\* C18: for every text bounding box (w, h) the side d of the square buffer
\* satisfies d*d >= w*w + h*h, no u32 operation of the computation
\* overflows, and the text is drawn at (d/2 - w/2, d/2 - h/2), an offset
\* with offset_x + w <= d and offset_y + h <= d.
C18_TextPadding ==
    text_size # NoText =>
        LET w == text_size[1]
            h == text_size[2]
            d == watermark.w
        IN /\ outcome # "panic"
           /\ TextDrawn =>
                 /\ d >= w /\ d >= h /\ d * d >= w * w + h * h
                 /\ drawn = <<d \div 2 - w \div 2, d \div 2 - h \div 2>>
                 /\ drawn[1] >= 0 /\ drawn[1] + w <= d
                 /\ drawn[2] >= 0 /\ drawn[2] + h <= d
====
